---- MODULE Spec2Model ----
(***************************************************************************)
(* Model of paicorelib/routing_defs.py: the routing-cost calculator, the   *)
(* RoutingCoord level/coordinate properties and the multicast group        *)
(* functions.  Every function of the module is pure; a behaviour is one    *)
(* call chain: the arguments are drawn in Init and each action applies one *)
(* function to them and stores what it returned (or the exception raised). *)
(***************************************************************************)
EXTENDS Integers, Sequences, FiniteSets, TLC

\* ---- bounds of the explored inputs -------------------------------------
MaxCore == 520      \* n_core ranges over 0..MaxCore
MaxCount == 2       \* counts of a directly built RoutingCost: 0..MaxCount
MaxLen == 4         \* length of the coords sequences: 0..MaxLen
MaxMask == 33       \* per-axis replication masks: 0..MaxMask
WordBits == 6       \* every modelled coordinate and mask is below 2^WordBits

\* ---- hardware parameter -------------------------------------------------
N_SUB_ROUTING_NODE == 4

\* ---- RoutingLevel (IntEnum) ---------------------------------------------
L0 == 0
L1 == 1
L2 == 2
L3 == 3
L4 == 4
L5 == 5
RoutingLevel == {L0, L1, L2, L3, L4, L5}

\* ---- RoutingDirection (Enum, its members identified by their value) -----
X0Y0 == <<0, 0>>
X0Y1 == <<0, 1>>
X1Y0 == <<1, 0>>
X1Y1 == <<1, 1>>
ANY == <<-1, -1>>
RoutingDirection == {X0Y0, X0Y1, X1Y0, X1Y1, ANY}

\* ---- Python integer operators used by the module ------------------------
\* v << k
Shl(v, k) == v * (2 ^ k)

\* v >> k (v >= 0)
Shr(v, k) == v \div (2 ^ k)

\* a ^ b on non-negative integers
RECURSIVE BitXor(_, _)
BitXor(a, b) ==
    IF a = 0 THEN b
    ELSE IF b = 0 THEN a
    ELSE (IF (a % 2) = (b % 2) THEN 0 ELSE 1) + 2 * BitXor(a \div 2, b \div 2)

\* a | b on non-negative integers
RECURSIVE BitOr(_, _)
BitOr(a, b) ==
    IF a = 0 THEN b
    ELSE IF b = 0 THEN a
    ELSE (IF (a % 2) = 1 \/ (b % 2) = 1 THEN 1 ELSE 0) + 2 * BitOr(a \div 2, b \div 2)

\* Coord.__xor__: per-axis XOR of two coordinates, giving a ReplicationId
CoordXor(c1, c2) == <<BitXor(c1[1], c2[1]), BitXor(c1[2], c2[2])>>

\* ReplicationId.__or__: per-axis OR
RIdOr(r1, r2) == <<BitOr(r1[1], r2[1]), BitOr(r1[2], r2[2])>>

\* ---- get_routing_consumption --------------------------------------------
RECURSIVE n_L0_loop(_, _)
n_L0_loop(n_L0_nodes, n_core_) ==
    IF n_L0_nodes < n_core_
    THEN n_L0_loop(Shl(n_L0_nodes, 1), n_core_)
    ELSE n_L0_nodes

n_L0_required_le(n_core_) ==
    LET RECURSIVE loop(_)
        loop(n) == IF n <= n_core_ THEN loop(Shl(n, 1)) ELSE n
    IN loop(1)

n_L0_required(n_core_) == n_L0_loop(1, n_core_)

\* 1 if n_prev < n_sub_node else (n_prev // n_sub_node)
n_parent(n_prev, n_sub_node) ==
    IF n_prev < n_sub_node THEN 1 ELSE n_prev \div n_sub_node

get_routing_consumption_ncore(n_core_) ==
    LET n_sub_node == N_SUB_ROUTING_NODE
        n_L0 == n_L0_required(n_core_)
        n_L1 == n_parent(n_core_, n_sub_node)
        n_L2 == n_parent(n_L1, n_sub_node)
        n_L3 == n_parent(n_L2, n_sub_node)
        n_L4 == n_parent(n_L3, n_sub_node)
    IN <<n_L0, n_L1, n_L2, n_L3, n_L4>>

get_routing_consumption(n_core_) ==
    LET n_sub_node == N_SUB_ROUTING_NODE
        n_L0 == n_L0_required(n_core_)
        n_L1 == n_parent(n_L0, n_sub_node)
        n_L2 == n_parent(n_L1, n_sub_node)
        n_L3 == n_parent(n_L2, n_sub_node)
        n_L4 == n_parent(n_L3, n_sub_node)
    IN <<n_L0, n_L1, n_L2, n_L3, n_L4>>

\* ---- RoutingCost.get_routing_level --------------------------------------
\* for i in reversed(range(5)): if self[i] > 1: return RoutingLevel(i + 1)
RECURSIVE routing_level_scan(_, _)
routing_level_scan(self, i) ==
    IF i < 0 THEN L1
    ELSE IF self[i + 1] > 1 THEN i + 1
    ELSE routing_level_scan(self, i - 1)

get_routing_level_forward(self) ==
    LET RECURSIVE scan(_)
        scan(i) == IF i > 4 THEN L1
                   ELSE IF self[i + 1] > 1 THEN i + 1
                   ELSE scan(i + 1)
    IN scan(0)

get_routing_level(self) == routing_level_scan(self, 4)

\* ---- RoutingCoord.level --------------------------------------------------
\* for i in range(len(self)): if self[i] is ANY: return RoutingLevel(5 - i)
RECURSIVE level_scan(_, _)
level_scan(self, i) ==
    IF i >= Len(self) THEN L0
    ELSE IF self[i + 1] = ANY THEN 5 - i
    ELSE level_scan(self, i + 1)

level_off_by_one(self) ==
    LET RECURSIVE scan(_)
        scan(i) == IF i >= Len(self) THEN L0
                   ELSE IF self[i + 1] = ANY THEN 4 - i
                   ELSE scan(i + 1)
    IN scan(0)

level(self) == level_scan(self, 0)

\* ---- RoutingCoord.coordinate --------------------------------------------
\* The result of a call: the exception raised ("" when none) and the value.
Raise(e) == [exc |-> e, val |-> <<>>]
Return(v) == [exc |-> "", val |-> v]

\* the sum of lines 132-138 (axis = 1) and 140-146 (axis = 2)
axis_value(self, axis) ==
    Shl(self[1][axis], 4) + Shl(self[2][axis], 3) + Shl(self[3][axis], 2)
        + Shl(self[4][axis], 1) + self[5][axis]

coordinate_swapped(self) ==
    IF level(self) > L0
    THEN Raise("AttributeError")
    ELSE Return(<<Shl(self[1][1], 4) + Shl(self[2][1], 3) + Shl(self[3][1], 1)
                    + Shl(self[4][1], 2) + self[5][1],
                  axis_value(self, 2)>>)

coordinate_loose(self) ==
    IF level(self) > L1
    THEN Raise("AttributeError")
    ELSE Return(<<axis_value(self, 1), axis_value(self, 2)>>)

coordinate(self) ==
    IF level(self) > L0
    THEN Raise("AttributeError")
    ELSE Return(<<axis_value(self, 1), axis_value(self, 2)>>)

\* ---- get_replication_id --------------------------------------------------
\* for coord in coords[1:]: rid |= base_coord ^ coord
RECURSIVE rid_loop(_, _, _, _)
rid_loop(coords_, base, i, r) ==
    IF i > Len(coords_) THEN r
    ELSE rid_loop(coords_, base, i + 1, RIdOr(r, CoordXor(base, coords_[i])))

get_replication_id_assign(coords_) ==
    LET RECURSIVE loop(_, _)
        loop(i, r) == IF i > Len(coords_) THEN r
                      ELSE loop(i + 1, CoordXor(coords_[1], coords_[i]))
    IN IF Len(coords_) = 0 THEN Raise("IndexError") ELSE Return(loop(2, <<0, 0>>))

get_replication_id(coords_) ==
    IF Len(coords_) = 0
    THEN Raise("IndexError")
    ELSE Return(rid_loop(coords_, coords_[1], 2, <<0, 0>>))

\* ---- get_multicast_cores -------------------------------------------------
\* for v in core: temp.add(v ^ (1 << lx)); core = core.union(temp); temp.clear()
toggle(core, lx) == core \cup {BitXor(v, Shl(1, lx)) : v \in core}

\* the loop over lx in range(5), carrying <<corex, corey>>
RECURSIVE lx_loop(_, _, _, _)
lx_loop(rid_, lx, corex, corey) ==
    IF lx >= 5 THEN <<corex, corey>>
    ELSE LET cx == IF Shr(rid_[1], lx) % 2 = 1 THEN toggle(corex, lx) ELSE corex
             cy == IF Shr(rid_[2], lx) % 2 = 1 THEN toggle(corey, lx) ELSE corey
         IN lx_loop(rid_, lx + 1, cx, cy)

\* Variants of the loop: n bits scanned, the y test reading rid.x, and temp
\* not cleared after the x branch.
RECURSIVE lx_loop_variant(_, _, _, _, _, _, _, _)
lx_loop_variant(rid_, lx, corex, corey, temp, n, yReadsX, keepTemp) ==
    IF lx >= n THEN <<corex, corey>>
    ELSE LET bit == Shl(1, lx)
             xset == Shr(rid_[1], lx) % 2 = 1
             yset == IF yReadsX THEN xset ELSE Shr(rid_[2], lx) % 2 = 1
             tx == IF xset THEN temp \cup {BitXor(v, bit) : v \in corex} ELSE temp
             cx == IF xset THEN corex \cup tx ELSE corex
             t1 == IF xset /\ ~keepTemp THEN {} ELSE tx
             ty == IF yset THEN t1 \cup {BitXor(v, bit) : v \in corey} ELSE t1
             cy == IF yset THEN corey \cup ty ELSE corey
             t2 == IF yset THEN {} ELSE ty
         IN lx_loop_variant(rid_, lx + 1, cx, cy, t2, n, yReadsX, keepTemp)

get_multicast_cores_range4(base, rid_) ==
    LET r == lx_loop_variant(rid_, 0, {base[1]}, {base[2]}, {}, 4, FALSE, FALSE)
    IN r[1] \X r[2]

get_multicast_cores_ridx(base, rid_) ==
    LET r == lx_loop_variant(rid_, 0, {base[1]}, {base[2]}, {}, 5, TRUE, FALSE)
    IN r[1] \X r[2]

get_multicast_cores_keeptemp(base, rid_) ==
    LET r == lx_loop_variant(rid_, 0, {base[1]}, {base[2]}, {}, 5, FALSE, TRUE)
    IN r[1] \X r[2]

get_multicast_cores(base, rid_) ==
    LET r == lx_loop(rid_, 0, {base[1]}, {base[2]})
    IN r[1] \X r[2]

\* ---- the inputs explored -------------------------------------------------
CostInputs == [1..5 -> 0..MaxCount]

RoutingCoordInputs == [1..5 -> RoutingDirection]

\* coordinates of the coords sequences: the block {16,17} x {4,5}, the two
\* corners of the 5-bit space, and a pair that differs from the block in
\* bit 5 of x
SeqCoords ==
    {<<16, 4>>, <<17, 4>>, <<16, 5>>, <<17, 5>>, <<0, 0>>, <<31, 31>>,
     <<48, 4>>, <<49, 4>>}

\* sequences over the 2x2 block at the origin
OriginCoords ==
    {<<<<0, 0>>, <<1, 1>>>>,
     <<<<0, 0>>, <<0, 1>>, <<1, 0>>, <<1, 1>>>>,
     <<<<1, 1>>, <<0, 0>>, <<1, 0>>, <<0, 1>>>>,
     <<<<1, 0>>, <<0, 0>>, <<1, 1>>>>}

CoordsInputs == UNION {[1..n -> SeqCoords] : n \in 0..MaxLen} \cup OriginCoords

BaseInputs == {<<0, 0>>, <<5, 18>>, <<31, 31>>, <<32, 3>>, <<7, 40>>}

RIdInputs == (0..MaxMask) \X (0..MaxMask)

\* ---- state ---------------------------------------------------------------
VARIABLES
    pc,           \* the next call of the chain, "done" after the last
    n_core,       \* argument of get_routing_consumption (-1: none)
    cost,         \* the RoutingCost (<<>>: none yet)
    rlevel,       \* result of RoutingCost.get_routing_level (-1: none yet)
    rcoord,       \* the RoutingCoord (<<>>: none)
    clevel,       \* result of RoutingCoord.level (-1: none yet)
    ret_coord,    \* result of RoutingCoord.coordinate
    coords,       \* argument of get_replication_id (<<>>: none or empty)
    ret_rid,      \* result of get_replication_id
    base_coord,   \* arguments of get_multicast_cores
    rid,
    cores         \* result of get_multicast_cores

vars == <<pc, n_core, cost, rlevel, rcoord, clevel, ret_coord, coords, ret_rid,
          base_coord, rid, cores>>

NotCalled == [exc |-> "not called", val |-> <<>>]

Init ==
    \/ \E n \in 0..MaxCore :
          /\ pc = "consumption" /\ n_core = n
          /\ cost = <<>> /\ rlevel = -1
          /\ rcoord = <<>> /\ clevel = -1 /\ ret_coord = NotCalled
          /\ coords = <<>> /\ ret_rid = NotCalled
          /\ base_coord = <<>> /\ rid = <<>> /\ cores = {}
    \/ \E c \in CostInputs :
          /\ pc = "routing_level" /\ cost = c
          /\ n_core = -1 /\ rlevel = -1
          /\ rcoord = <<>> /\ clevel = -1 /\ ret_coord = NotCalled
          /\ coords = <<>> /\ ret_rid = NotCalled
          /\ base_coord = <<>> /\ rid = <<>> /\ cores = {}
    \/ \E r \in RoutingCoordInputs :
          /\ pc = "level" /\ rcoord = r
          /\ n_core = -1 /\ cost = <<>> /\ rlevel = -1
          /\ clevel = -1 /\ ret_coord = NotCalled
          /\ coords = <<>> /\ ret_rid = NotCalled
          /\ base_coord = <<>> /\ rid = <<>> /\ cores = {}
    \/ \E cs \in CoordsInputs :
          /\ pc = "replication_id" /\ coords = cs
          /\ n_core = -1 /\ cost = <<>> /\ rlevel = -1
          /\ rcoord = <<>> /\ clevel = -1 /\ ret_coord = NotCalled
          /\ ret_rid = NotCalled
          /\ base_coord = <<>> /\ rid = <<>> /\ cores = {}
    \/ \E b \in BaseInputs, m \in RIdInputs :
          /\ pc = "multicast_cores" /\ base_coord = b /\ rid = m
          /\ n_core = -1 /\ cost = <<>> /\ rlevel = -1
          /\ rcoord = <<>> /\ clevel = -1 /\ ret_coord = NotCalled
          /\ coords = <<>> /\ ret_rid = NotCalled
          /\ cores = {}

\* ---- actions: one per function of the module -----------------------------
GetRoutingConsumption ==
    /\ pc = "consumption"
    /\ cost' = get_routing_consumption(n_core)
    /\ pc' = "routing_level"
    /\ UNCHANGED <<n_core, rlevel, rcoord, clevel, ret_coord, coords, ret_rid,
                   base_coord, rid, cores>>

GetRoutingLevel ==
    /\ pc = "routing_level"
    /\ rlevel' = get_routing_level(cost)
    /\ pc' = "done"
    /\ UNCHANGED <<n_core, cost, rcoord, clevel, ret_coord, coords, ret_rid,
                   base_coord, rid, cores>>

Level ==
    /\ pc = "level"
    /\ clevel' = level(rcoord)
    /\ pc' = "coordinate"
    /\ UNCHANGED <<n_core, cost, rlevel, rcoord, ret_coord, coords, ret_rid,
                   base_coord, rid, cores>>

Coordinate ==
    /\ pc = "coordinate"
    /\ ret_coord' = coordinate(rcoord)
    /\ pc' = "done"
    /\ UNCHANGED <<n_core, cost, rlevel, rcoord, clevel, coords, ret_rid,
                   base_coord, rid, cores>>

\* get_replication_id(coords); on success the caller expands the group from
\* coords[0] and the returned mask, an IndexError ends the chain
GetReplicationId ==
    /\ pc = "replication_id"
    /\ LET r == get_replication_id(coords)
       IN /\ ret_rid' = r
          /\ IF r.exc = ""
             THEN /\ base_coord' = coords[1]
                  /\ rid' = r.val
                  /\ pc' = "multicast_cores"
             ELSE /\ UNCHANGED <<base_coord, rid>>
                  /\ pc' = "done"
    /\ UNCHANGED <<n_core, cost, rlevel, rcoord, clevel, ret_coord, coords, cores>>

GetMulticastCores ==
    /\ pc = "multicast_cores"
    /\ cores' = get_multicast_cores(base_coord, rid)
    /\ pc' = "done"
    /\ UNCHANGED <<n_core, cost, rlevel, rcoord, clevel, ret_coord, coords,
                   ret_rid, base_coord, rid>>

Next ==
    \/ GetRoutingConsumption
    \/ GetRoutingLevel
    \/ Level
    \/ Coordinate
    \/ GetReplicationId
    \/ GetMulticastCores

Spec == Init /\ [][Next]_vars

TypeOK ==
    /\ pc \in {"consumption", "routing_level", "level", "coordinate",
               "replication_id", "multicast_cores", "done"}
    /\ rlevel \in {-1} \cup RoutingLevel
    /\ clevel \in {-1} \cup RoutingLevel

\* ---- helpers of the properties -------------------------------------------
Bit(v, k) == (v \div (2 ^ k)) % 2

BitPositions == 0..(WordBits - 1)

Words == 0..((2 ^ WordBits) - 1)

RECURSIVE IsPowerOf(_, _)
IsPowerOf(b, n) == n = 1 \/ (n > 1 /\ n % b = 0 /\ IsPowerOf(b, n \div b))

PopCount(v) == Cardinality({k \in BitPositions : Bit(v, k) = 1})

Elements(seq) == {seq[i] : i \in 1..Len(seq)}

SetMax(S) == CHOOSE m \in S : \A e \in S : e <= m

SetMin(S) == CHOOSE m \in S : \A e \in S : m <= e

HasAny(rc) == \E i \in 1..5 : rc[i] = ANY

ConsumptionReturned == n_core >= 0 /\ cost # <<>>

CoordinateReturned == rcoord # <<>> /\ pc = "done"

ExpandedFromCoords == Len(coords) > 0 /\ pc = "done"

\* the values that differ from b only in bit positions where m has a bit set
Candidates(b, m) ==
    {v \in Words : \A k \in BitPositions : Bit(v, k) # Bit(b, k) => Bit(m, k) = 1}

\* the values that agree with b on every bit outside the positions M
AxisBlock(b, M) ==
    LET Weight(T) == LET RECURSIVE sum(_)
                         sum(U) == IF U = {} THEN 0
                                   ELSE LET k == CHOOSE k \in U : TRUE
                                        IN (2 ^ k) + sum(U \ {k})
                     IN sum(T)
        cleared == b - Weight({k \in M : Bit(b, k) = 1})
    IN {cleared + Weight(T) : T \in SUBSET M}

\* the elements of cs are exactly an axis-aligned power-of-two block over
\* bit sets Mx, My within bits 0..4, containing cs[1]
IsBlock(cs) ==
    LET S == Elements(cs)
        xs == {c[1] : c \in S}
        ys == {c[2] : c \in S}
    IN /\ \E Mx \in SUBSET (0..4) :
             /\ Cardinality(xs) = 2 ^ Cardinality(Mx)
             /\ xs = AxisBlock(cs[1][1], Mx)
       /\ \E My \in SUBSET (0..4) :
             /\ Cardinality(ys) = 2 ^ Cardinality(My)
             /\ ys = AxisBlock(cs[1][2], My)
       /\ S = xs \X ys

\* ---- properties ----------------------------------------------------------

\* C1: for every n_core >= 0 the n_L0 field returned by
\* get_routing_consumption(n_core) is the smallest power of two >= n_core;
\* n_core in {1,5,8,20,32,33} gives {1,8,8,32,32,64} and n_core = 0 gives 1.
C1_SmallestPowerOfTwo ==
    ConsumptionReturned =>
        /\ IsPowerOf(2, cost[1])
        /\ cost[1] >= n_core
        /\ \A m \in 1..(cost[1] - 1) : IsPowerOf(2, m) => m < n_core
        /\ n_core = 0 => cost[1] = 1
        /\ n_core = 1 => cost[1] = 1
        /\ n_core = 5 => cost[1] = 8
        /\ n_core = 8 => cost[1] = 8
        /\ n_core = 20 => cost[1] = 32
        /\ n_core = 32 => cost[1] = 32
        /\ n_core = 33 => cost[1] = 64

C1_Witness == ConsumptionReturned /\ n_core = 33 /\ cost[1] = 64

\* C2: get_routing_level returns RoutingLevel(i+1) for the largest index i in
\* 0..4 whose count is > 1, and L1 when no count is > 1; (1,1,1,1,1) gives
\* L1, (8,2,1,1,1) gives L2, and the result is never L0.
C2_LargestIndexAboveOne ==
    rlevel # -1 =>
        LET big == {i \in 0..4 : cost[i + 1] > 1}
        IN /\ rlevel = IF big = {} THEN L1 ELSE SetMax(big) + 1
           /\ rlevel # L0
           /\ cost = <<1, 1, 1, 1, 1>> => rlevel = L1
           /\ cost = <<8, 2, 1, 1, 1>> => rlevel = L2

C2_Witness == rlevel = L2 /\ cost = <<8, 2, 1, 1, 1>>

\* C3: RoutingCoord.level is RoutingLevel(5 - index) for the index (0 at the
\* L4 entry) of the first ANY entry, and L0 when no entry is ANY; the entries
\* after the first ANY do not affect it.
C3_LevelOfFirstAny ==
    clevel # -1 =>
        LET anys == {i \in 0..4 : rcoord[i + 1] = ANY}
        IN clevel = IF anys = {} THEN L0 ELSE 5 - SetMin(anys)

C3_Witness == clevel = L4 /\ rcoord = <<X1Y0, ANY, X0Y1, ANY, X1Y1>>

\* C4: for a RoutingCoord of five concrete directions, .coordinate returns
\* Coord(x, y) with 0 <= x, y <= 31 where, for every level k in 0..4, bit k of
\* x and of y are the x and y quadrant bits of the direction at level k (the
\* L4 entry at bit 4 down to the L0 entry at bit 0).
C4_CoordinateBits ==
    (CoordinateReturned /\ ~HasAny(rcoord)) =>
        /\ ret_coord.exc = ""
        /\ ret_coord.val[1] \in 0..31
        /\ ret_coord.val[2] \in 0..31
        /\ \A k \in 0..4 :
              /\ Bit(ret_coord.val[1], k) = rcoord[5 - k][1]
              /\ Bit(ret_coord.val[2], k) = rcoord[5 - k][2]

C4_Witness ==
    /\ CoordinateReturned
    /\ rcoord = <<X1Y0, X0Y1, X1Y1, X0Y0, X1Y0>>
    /\ ret_coord = Return(<<21, 12>>)

\* C5: .coordinate fails with the invalid-state error (AttributeError) and
\* returns no Coord whenever at least one of the five entries is ANY, also
\* when concrete entries follow it; it succeeds exactly when all five entries
\* are concrete.
C5_CoordinateFailsOnAny ==
    CoordinateReturned =>
        /\ HasAny(rcoord) <=> ret_coord = Raise("AttributeError")
        /\ ~HasAny(rcoord) <=> ret_coord.exc = ""

C5_Witness ==
    /\ CoordinateReturned
    /\ rcoord = <<X0Y0, X1Y1, X0Y1, X1Y0, ANY>>
    /\ ret_coord = Raise("AttributeError")

\* C6: for a non-empty coords, get_replication_id returns the mask whose bit
\* k on an axis is set exactly when some coordinate of coords differs from
\* coords[0] at bit k of that axis; a one-element sequence gives (0, 0).
C6_MaskOfDifferingBits ==
    ret_rid.exc = "" =>
        /\ Len(coords) > 0
        /\ \A axis \in 1..2 :
              /\ ret_rid.val[axis] \in Words
              /\ \A k \in BitPositions :
                    Bit(ret_rid.val[axis], k) = 1 <=>
                        \E i \in 1..Len(coords) :
                            Bit(coords[i][axis], k) # Bit(coords[1][axis], k)
        /\ Len(coords) = 1 => ret_rid.val = <<0, 0>>
        /\ coords = <<<<0, 0>>, <<1, 1>>>> => ret_rid.val = <<1, 1>>

C6_Witness ==
    /\ coords = <<<<16, 4>>, <<17, 4>>, <<16, 5>>, <<48, 4>>>>
    /\ ret_rid = Return(<<33, 1>>)

\* C7: for a mask whose set bits lie in positions 0..4, get_multicast_cores
\* returns exactly the coordinates (x, y) where x XOR base.x has bits only
\* where mask.x has them and y XOR base.y only where mask.y has them: the
\* product of the per-axis candidate sets, containing base, of
\* 2^popcount(mask.x) * 2^popcount(mask.y) elements.
C7_ExactExpansion ==
    (pc = "done" /\ rid # <<>> /\ rid[1] < 32 /\ rid[2] < 32) =>
        /\ cores = Candidates(base_coord[1], rid[1]) \X Candidates(base_coord[2], rid[2])
        /\ base_coord \in cores
        /\ Cardinality(cores) = (2 ^ PopCount(rid[1])) * (2 ^ PopCount(rid[2]))
        /\ (base_coord = <<0, 0>> /\ rid = <<1, 0>>) => cores = {<<0, 0>>, <<1, 0>>}

C7_Witness ==
    /\ pc = "done"
    /\ coords = <<>>
    /\ base_coord = <<5, 18>>
    /\ rid = <<17, 4>>
    /\ cores = {<<5, 18>>, <<4, 18>>, <<21, 18>>, <<20, 18>>,
                <<5, 22>>, <<4, 22>>, <<21, 22>>, <<20, 22>>}

\* C8 as stated: for every non-empty coords of coordinates with non-negative
\* x and y, get_multicast_cores(coords[0], get_replication_id(coords)) is a
\* superset of the elements of coords.
C8_SupersetOfAnyCoords ==
    ExpandedFromCoords => Elements(coords) \subseteq cores

\* C8 amended: the expansion is a superset of the elements of coords when
\* every coordinate differs from coords[0] only in bits 0..4 of each axis (in
\* particular when all x and y are in 0..31).
C8_SupersetWithinFiveBits ==
    (/\ ExpandedFromCoords
     /\ \A i \in 1..Len(coords) : \A axis \in 1..2 :
           coords[i][axis] \div 32 = coords[1][axis] \div 32)
        => Elements(coords) \subseteq cores

C8_Witness ==
    /\ ExpandedFromCoords
    /\ coords = <<<<16, 5>>, <<17, 4>>, <<31, 31>>>>
    /\ Elements(coords) \subseteq cores
    /\ Cardinality(cores) = 256

\* C9: when the elements of coords are exactly an axis-aligned power-of-two
\* block over bits 0..4 containing coords[0], listed in any order, the
\* expansion get_multicast_cores(coords[0], get_replication_id(coords)) is
\* exactly the set of elements of coords.
C9_BlockExpandsToItself ==
    (ExpandedFromCoords /\ IsBlock(coords)) =>
        /\ cores = Elements(coords)
        /\ Elements(coords) = {<<0, 0>>, <<0, 1>>, <<1, 0>>, <<1, 1>>}
              => cores = {<<0, 0>>, <<0, 1>>, <<1, 0>>, <<1, 1>>}

C9_Witness ==
    /\ ExpandedFromCoords
    /\ coords = <<<<17, 4>>, <<16, 5>>, <<17, 5>>, <<16, 4>>>>
    /\ IsBlock(coords)
    /\ cores = {<<16, 4>>, <<16, 5>>, <<17, 4>>, <<17, 5>>}

\* C10 as stated: with F = 4, each of n_L1..n_L4 returned by
\* get_routing_consumption is a power of F.
C10_CountsArePowersOfF ==
    ConsumptionReturned =>
        \A i \in 2..5 : IsPowerOf(N_SUB_ROUTING_NODE, cost[i])

\* C10 amended: each of n_L1..n_L4 is a power of two (not always of F).
C10_CountsArePowersOfTwo ==
    ConsumptionReturned => \A i \in 2..5 : IsPowerOf(2, cost[i])

C10_Witness ==
    /\ ConsumptionReturned
    /\ n_core = 257
    /\ cost = <<512, 128, 32, 8, 2>>

====
